---- MODULE Spec2Model ----
(***************************************************************************)
(* Document intake portal: the upload form's Submission Orchestrator       *)
(* (onSubmit / uploadFile), the Upload Proxy (POST /api/upload), the       *)
(* object storage bucket and the customer_documents_multi table.           *)
(*                                                                         *)
(* Strings that flow into storage paths are sequences of characters, one   *)
(* short string per UTF-16 code unit ("e_acute" and                        *)
(* "COMBINING_ACUTE" stand for U+00E9 and U+0301, "sharp_s" for U+00DF).   *)
(* The falsy values null, undefined and "" of a path are all <<>>.         *)
(***************************************************************************)
EXTENDS Integers, Sequences, FiniteSets, TLC

(* ------------------------------ bounds -------------------------------- *)

\* Largest number of files one form uploads, over all its submissions.
MaxFiles == 2
\* Largest value of the millisecond clock (Date.now()).
MaxTime == 1
\* Largest number of requests sent to the proxy by callers other than the form.
MaxDirect == 2
\* Largest number of rows other writers put into the table.
MaxRows == 2

(* ------------------------- document categories ------------------------ *)

\* The keys of the documentTypes table of onSubmit, in its order.
documentTypes ==
  << "companyRegistration",
     "companyDeclaration",
     "importPermit",
     "tk10",
     "tk11",
     "tk32",
     "tk31",
     "purchaseOrder",
     "idCardCopy",
     "msds",
     "commercialInvoice",
     "packingList" >>

DocKeys == { documentTypes[n] : n \in 1..Len(documentTypes) }

\* The characters of a category key (the key as it is written into a path).
Chars(key) ==
  CASE key = "companyRegistration" ->
         <<"c","o","m","p","a","n","y","R","e","g","i","s","t","r","a","t","i","o","n">>
    [] key = "companyDeclaration" ->
         <<"c","o","m","p","a","n","y","D","e","c","l","a","r","a","t","i","o","n">>
    [] key = "importPermit" ->
         <<"i","m","p","o","r","t","P","e","r","m","i","t">>
    [] key = "tk10" ->
         <<"t","k","1","0">>
    [] key = "tk11" ->
         <<"t","k","1","1">>
    [] key = "tk32" ->
         <<"t","k","3","2">>
    [] key = "tk31" ->
         <<"t","k","3","1">>
    [] key = "purchaseOrder" ->
         <<"p","u","r","c","h","a","s","e","O","r","d","e","r">>
    [] key = "idCardCopy" ->
         <<"i","d","C","a","r","d","C","o","p","y">>
    [] key = "msds" ->
         <<"m","s","d","s">>
    [] key = "commercialInvoice" ->
         <<"c","o","m","m","e","r","c","i","a","l","I","n","v","o","i","c","e">>
    [] key = "packingList" ->
         <<"p","a","c","k","i","n","g","L","i","s","t">>

(* ------------------------------ characters ---------------------------- *)

LowerSeq ==
  <<"a","b","c","d","e","f","g","h","i","j","k","l","m","n","o","p","q","r",
    "s","t","u","v","w","x","y","z">>
UpperSeq ==
  <<"A","B","C","D","E","F","G","H","I","J","K","L","M","N","O","P","Q","R",
    "S","T","U","V","W","X","Y","Z">>
DigitSeq == <<"0","1","2","3","4","5","6","7","8","9">>

Range(s) == { s[n] : n \in 1..Len(s) }

\* [a-zA-Z0-9]
IsAlnum(ch) == ch \in Range(LowerSeq) \cup Range(UpperSeq) \cup Range(DigitSeq)

\* [a-zA-Z0-9.\-_]
IsBaseChar(ch) == IsAlnum(ch) \/ ch \in {".", "-", "_"}

\* String.prototype.toLowerCase on one code unit that survived the
\* replacement of line 24 (so an ASCII letter, a digit or "_").
ToLowerCase(ch) ==
  IF ch \in Range(UpperSeq)
  THEN LowerSeq[CHOOSE n \in 1..Len(UpperSeq) : UpperSeq[n] = ch]
  ELSE ch

\* String.prototype.normalize('NFD') on one code unit: a precomposed accented
\* letter decomposes into its base letter and a combining mark.
NFD(ch) ==
  IF ch = "e_acute" THEN <<"e", "COMBINING_ACUTE">> ELSE <<ch>>

\* [U+0300-U+036F]
IsCombining(ch) == ch = "COMBINING_ACUTE"

\* normalize('NFD') on a whole string.
RECURSIVE Normalize(_)
Normalize(s) ==
  IF s = <<>> THEN <<>> ELSE NFD(Head(s)) \o Normalize(Tail(s))

\* Number -> decimal string (template literal of line 39).
RECURSIVE ToDigits(_)
ToDigits(n) ==
  IF n < 10 THEN <<DigitSeq[n + 1]>>
  ELSE ToDigits(n \div 10) \o <<DigitSeq[(n % 10) + 1]>>

\* A value of Date.now(): millions * 10^6 + rest, with rest below a million.
Timestamp(millions, rest) == [millions |-> millions, rest |-> rest]

\* `${timestamp}`: the decimal digits of millions * 10^6 + rest.
TimestampDigits(timestamp) ==
  IF timestamp.millions = 0 THEN ToDigits(timestamp.rest)
  ELSE LET low == ToDigits(timestamp.rest)
       IN  ToDigits(timestamp.millions) \o
           [n \in 1..(6 - Len(low)) |-> "0"] \o low

(* --------------------------- Filename Sanitizer ------------------------ *)

\* companyName.replace(/[^a-zA-Z0-9]/g, '_').toLowerCase()
SafeCompanyName(companyName) ==
  [n \in 1..Len(companyName) |->
     ToLowerCase(IF IsAlnum(companyName[n]) THEN companyName[n] ELSE "_")]

\* originalName.lastIndexOf('.'), as a 0-based index, -1 when there is none.
LastIndexOfDot(originalName) ==
  LET dots == { n \in 1..Len(originalName) : originalName[n] = "." }
  IN  IF dots = {} THEN -1
      ELSE (CHOOSE n \in dots : \A m \in dots : m <= n) - 1

\* originalName.split('.').pop() || ''
FileExtension(originalName) ==
  LET idx == LastIndexOfDot(originalName)
  IN  IF idx = -1 THEN originalName
      ELSE SubSeq(originalName, idx + 2, Len(originalName))

\* originalName.substring(0, originalName.lastIndexOf('.') || originalName.length)
BaseName(originalName) ==
  LET idx == LastIndexOfDot(originalName)
      end == IF idx # 0 THEN idx ELSE Len(originalName)
  IN  SubSeq(originalName, 1, IF end < 0 THEN 0 ELSE end)

\* Mutant of Collapse: runs of '_' are kept.
CollapseNone(s) == s

RECURSIVE Collapse(_)
\* .replace(/_+/g, '_')
Collapse(s) ==
  IF Len(s) < 2 THEN s
  ELSE IF s[1] = "_" /\ s[2] = "_" THEN Collapse(Tail(s))
  ELSE <<s[1]>> \o Collapse(Tail(s))

\* Mutant of SafeBaseName: diacritics are stripped but the other characters
\* outside the class are left in place.
SafeBaseNameNoReplace(baseName) ==
  Collapse(SelectSeq(Normalize(baseName), LAMBDA ch : ~IsCombining(ch)))

\* normalize('NFD'), strip [U+0300-U+036F], replace [^a-zA-Z0-9.\-_] by '_',
\* collapse runs of '_'.
SafeBaseName(baseName) ==
  LET decomposed == Normalize(baseName)
      stripped   == SelectSeq(decomposed, LAMBDA ch : ~IsCombining(ch))
      replaced   == [n \in 1..Len(stripped) |->
                       IF IsBaseChar(stripped[n]) THEN stripped[n] ELSE "_"]
  IN  Collapse(replaced)

\* Mutant of StorageFileName: the timestamp is left out of the key.
StorageFileNameNoTime(companyName, originalName, timestamp) ==
  SafeCompanyName(companyName) \o <<"_">> \o
  SafeBaseName(BaseName(originalName)) \o <<".">> \o FileExtension(originalName)

\* `${safeCompanyName}_${safeBaseName}_${timestamp}.${fileExtension}`
StorageFileName(companyName, originalName, timestamp) ==
  SafeCompanyName(companyName) \o <<"_">> \o
  SafeBaseName(BaseName(originalName)) \o <<"_">> \o
  TimestampDigits(timestamp) \o <<".">> \o FileExtension(originalName)

\* Mutant of ObjectPath: the object is written at the bucket's root.
ObjectPathNoFolder(folder, storageFileName) == storageFileName

\* `${folder}/${storageFileName}`
ObjectPath(folder, storageFileName) == folder \o <<"/">> \o storageFileName

(* ------------------------------- inputs -------------------------------- *)

Clients == {"c1", "c2"}

\* A value of the multipart field `file`: no such field or an empty text value
\* (formData.get gives null or '', both falsy), a File (its name and byte
\* length; a File object is truthy whatever its length), or a non-empty text
\* field.
NoFile == [kind |-> "none", name |-> <<>>, size |-> 0]
TextField == [kind |-> "text", name |-> <<>>, size |-> 0]
MkFile(name, size) == [kind |-> "File", name |-> name, size |-> size]

\* Names of the files a user selects.
FileNames == { <<"a", " ", ".", "p">>, <<"b">> }

\* Values typed into the company name field.
CompanyNames == { <<>>, <<"A", ".">> }

\* The categories the modelled users select files for: the first and the last
\* row of documentTypes.
SelectableKeys == { "companyRegistration", "packingList" }

\* The values of the twelve file fields: a FileList per category (<<>> when no
\* file is selected), at most MaxFiles files in all.
FilesOf(picks) ==
  [key \in DocKeys |->
     LET mine == SelectSeq(picks, LAMBDA pk : pk[1] = key)
     IN  [n \in 1..Len(mine) |-> MkFile(mine[n][2], 1)]]

Selections ==
  { FilesOf(picks) :
      picks \in UNION { [1..n -> SelectableKeys \X FileNames] : n \in 0..MaxFiles } }

\* react-hook-form defaultValues: companyName "", no file field set.
DefaultValues == [companyName |-> <<>>, files |-> [key \in DocKeys |-> <<>>]]

\* Requests that callers other than the form send to the endpoint.
DirectRequests ==
  [file : {NoFile, TextField, MkFile(<<"a", " ", ".", "p">>, 0),
           MkFile(<<"a", " ", ".", "p">>, 1)},
   folder : {<<>>, Chars("commercialInvoice"), <<"x">>},
   companyName : {<<>>, <<"A", ".">>}]

\* File names other callers upload: with a space, without a dot, with a
\* leading dot only, with accented and other non-ASCII letters and an
\* upper-case extension, with two dots, with a space or a slash after the
\* last dot, with a trailing dot.
KeyFileNames ==
  { <<"a", " ", ".", "p">>,
    <<"b">>,
    <<".", "b">>,
    <<"e_acute", "sharp_s", ".", "P">>,
    <<"a", ".", "b", ".", "c">>,
    <<"c", ".", "p", " ", "q">>,
    <<"c", ".", "p", "/", "q">>,
    <<"-", "#", "#", "_", ".">> }

\* Company names other callers send.
KeyCompanyNames == { <<"A", ".">>, <<"e_acute", "B", "1">> }

\* Well-formed requests of other callers, one per file name and company name.
KeyRequests ==
  [file : { MkFile(name, 1) : name \in KeyFileNames },
   folder : {Chars("msds")},
   companyName : KeyCompanyNames]

\* What the storage backend does with one upload call.
BackendOutcomes == {"ok", "reject", "throws"}

MsgMissing == "Missing required fields"
MsgServer == "Server error occurred"
MsgExists == "The resource already exists"
MsgBackend == "backend unavailable"

(* ----------------------------- Upload Proxy ---------------------------- *)

\* Mutant of Missing: the company name is not checked.
MissingNoCompany(req) ==
  req.file.kind = "none" \/ req.folder = <<>>

\* !file || !folder || !companyName
Missing(req) ==
  req.file.kind = "none" \/ req.folder = <<>> \/ req.companyName = <<>>

\* Mutant of StorageUpload: upload with upsert, an existing path is accepted.
StorageUploadUpsert(store, path, backend) ==
  IF backend = "throws"
  THEN [data |-> <<>>, error |-> "", threw |-> TRUE, store |-> store]
  ELSE IF backend = "reject"
  THEN [data |-> <<>>, error |-> MsgBackend, threw |-> FALSE, store |-> store]
  ELSE [data |-> path, error |-> "", threw |-> FALSE, store |-> store \cup {path}]

\* Mutant of StorageUpload: success is reported without storing the object.
StorageUploadNotStored(store, path, backend) ==
  IF backend = "throws"
  THEN [data |-> <<>>, error |-> "", threw |-> TRUE, store |-> store]
  ELSE IF path \in store
  THEN [data |-> <<>>, error |-> MsgExists, threw |-> FALSE, store |-> store]
  ELSE IF backend = "reject"
  THEN [data |-> <<>>, error |-> MsgBackend, threw |-> FALSE, store |-> store]
  ELSE [data |-> path, error |-> "", threw |-> FALSE, store |-> store]

\* supabase.storage.from('customer-documents').upload(path, buffer, ...)
\* without upsert: an existing path is rejected; otherwise the backend
\* stores the object or fails.  [data, error, threw, store]
StorageUpload(store, path, backend) ==
  IF backend = "throws"
  THEN [data |-> <<>>, error |-> "", threw |-> TRUE, store |-> store]
  ELSE IF path \in store
  THEN [data |-> <<>>, error |-> MsgExists, threw |-> FALSE, store |-> store]
  ELSE IF backend = "reject"
  THEN [data |-> <<>>, error |-> MsgBackend, threw |-> FALSE, store |-> store]
  ELSE [data |-> path, error |-> "", threw |-> FALSE, store |-> store \cup {path}]

\* Mutant of Answer: a backend error is answered with the generic message.
AnswerGeneric(up) ==
  IF up.threw \/ up.error # ""
  THEN [status |-> 500, path |-> <<>>, error |-> MsgServer]
  ELSE [status |-> 200, path |-> up.data, error |-> ""]

\* Lines 52-60 and the catch of line 61: the response to a request whose
\* upload call ended as `up`.
Answer(up) ==
  IF up.threw
  THEN [status |-> 500, path |-> <<>>, error |-> MsgServer]
  ELSE IF up.error # ""
  THEN [status |-> 500, path |-> <<>>, error |-> up.error]
  ELSE [status |-> 200, path |-> up.data, error |-> ""]

\* One run of POST at time `timestamp`: the response, the paths it asked the
\* backend to write, the backend's error message ("" when it gave none),
\* whether the backend stored the object, and the bucket afterwards.
POST(req, store, timestamp, backend) ==
  IF Missing(req)
  THEN [resp |-> [status |-> 400, path |-> <<>>, error |-> MsgMissing],
        attempts |-> <<>>, backendError |-> "", uploaded |-> FALSE,
        store |-> store]
  ELSE IF req.file.kind # "File"
  THEN \* file.name is undefined: originalName.split throws, caught at line 61
       [resp |-> [status |-> 500, path |-> <<>>, error |-> MsgServer],
        attempts |-> <<>>, backendError |-> "", uploaded |-> FALSE,
        store |-> store]
  ELSE LET storageFileName ==
             StorageFileName(req.companyName, req.file.name, timestamp)
           path == ObjectPath(req.folder, storageFileName)
           up   == StorageUpload(store, path, backend)
       IN  [resp |-> Answer(up), attempts |-> <<path>>,
            backendError |-> up.error,
            uploaded |-> (~up.threw /\ up.error = ""), store |-> up.store]

(* -------------------------------- state -------------------------------- *)

VARIABLES
  storage,             \* bucket customer-documents: the paths of its objects
  db,                  \* table customer_documents_multi, in insertion order
  now,                 \* the millisecond clock, below a million
  epoch,               \* the clock's millions: Date.now() is epoch * 10^6 + now
  viewer,              \* the submissions page: loading, error, submissions
  lastCall,            \* the last request of another caller: when it was
                       \* handled, the response, the objects it created
  directCalls,         \* requests handled for callers other than the form
  form,                \* form[c]: the values of the form's fields
  validationError,     \* validationError[c]: the resolver rejected the values
  pc,                  \* pc[c]: "idle", or the await onSubmit is suspended at
  data,                \* data[c]: the values handleSubmit passed to onSubmit
  todo,                \* todo[c]: the (category, index) pairs still to visit
  documentPaths,
  anyUploadsSucceeded,
  isUploading,
  resp,                \* resp[c]: the proxy's response, on its way back
  insertReq,           \* insertReq[c]: the row handed to insert()
  calls,               \* calls[c]: the uploadFile calls of the run, in order
  insertAttempts,      \* insertAttempts[c]: insert() calls of the run
  insertResult,        \* insertResult[c]: how the run's insert() ended
  written,             \* written[c]: id of the row the run inserted, else 0
  toasts,              \* toasts[c]: notifications of the run, in order
  sent                 \* sent[c]: uploadFile calls of all runs so far

vars ==
  << storage, db, now, epoch, viewer, lastCall, directCalls, form,
     validationError, pc, data, todo, documentPaths, anyUploadsSucceeded, isUploading, resp, insertReq,
     calls, insertAttempts, insertResult, written, toasts, sent >>

sharedVars == << storage, db, now, epoch, viewer, lastCall, directCalls >>

NoResp == [status |-> 0, path |-> <<>>, error |-> ""]
NoRow == [company_name |-> <<>>, document_paths |-> [key \in DocKeys |-> <<>>],
          uploaded_at |-> 0]
NoCall == [req |-> [file |-> NoFile, folder |-> <<>>, companyName |-> <<>>],
           at |-> 0, resp |-> NoResp, attempts |-> <<>>, backendError |-> "",
           uploaded |-> FALSE, created |-> {}]

\* The submissions page right after it is loaded: the useState defaults, with
\* the query of fetchSubmissions under way.
Mounted == [submissions |-> <<>>, loading |-> TRUE, error |-> "",
            pending |-> TRUE]

\* The portal when the clock shows `millions` * 10^6.
InitAt(millions) ==
  /\ storage = {}
  /\ db = <<>>
  /\ now = 0
  /\ epoch = millions
  /\ viewer = Mounted
  /\ lastCall = NoCall
  /\ directCalls = 0
  /\ form = [c \in Clients |-> DefaultValues]
  /\ validationError = [c \in Clients |-> FALSE]
  /\ pc = [c \in Clients |-> "idle"]
  /\ data = [c \in Clients |-> DefaultValues]
  /\ todo = [c \in Clients |-> <<>>]
  /\ documentPaths = [c \in Clients |-> [key \in DocKeys |-> <<>>]]
  /\ anyUploadsSucceeded = [c \in Clients |-> FALSE]
  /\ isUploading = [c \in Clients |-> FALSE]
  /\ resp = [c \in Clients |-> NoResp]
  /\ insertReq = [c \in Clients |-> NoRow]
  /\ calls = [c \in Clients |-> <<>>]
  /\ insertAttempts = [c \in Clients |-> 0]
  /\ insertResult = [c \in Clients |-> "none"]
  /\ written = [c \in Clients |-> 0]
  /\ toasts = [c \in Clients |-> <<>>]
  /\ sent = [c \in Clients |-> 0]

Init == InitAt(0)

(* ------------------------ Submission Orchestrator ---------------------- *)

\* The (category, index) pairs the two loops of onSubmit visit, in order.
RECURSIVE PlanFrom(_, _)
PlanFrom(files, k) ==
  IF k > Len(documentTypes) THEN <<>>
  ELSE [n \in 1..Len(files[documentTypes[k]]) |-> <<documentTypes[k], n>>]
       \o PlanFrom(files, k + 1)

\* Mutant of Plan: the files are visited from the last to the first.
PlanReversed(files) ==
  LET plan == PlanFrom(files, 1)
  IN  [n \in 1..Len(plan) |-> plan[Len(plan) + 1 - n]]

Plan(files) == PlanFrom(files, 1)

\* The call uploadFile(files[i], doc.key, data.companyName) for the pair `at`.
CallAt(values, at) ==
      [folder |-> at[1], index |-> at[2],
       file |-> values.files[at[1]][at[2]],
       returned |-> FALSE, path |-> <<>>]

\* The FormData uploadFile builds for a call.
FormData(call, companyName) ==
  [file |-> call.file, folder |-> Chars(call.folder),
   companyName |-> companyName]

\* Mutant of Valid: the schema accepts any company name.
ValidAlways(values) == TRUE

\* documentUploadSchema: companyName is a string of at least 2 characters.
Valid(values) == Len(values.companyName) >= 2

\* Mutant of SubmitEnabled: the submit button is never disabled.
SubmitAlwaysEnabled(c) == TRUE

\* <Button type="submit" disabled={isUploading}>: the form can be submitted.
SubmitEnabled(c) == ~isUploading[c]

\* The user leaves the company name field holding `companyName` and presses
\* the submit button (enabled while isUploading is false):
\* form.handleSubmit(onSubmit) with values the resolver rejects shows the
\* message and does not call onSubmit.
SubmitInvalid(c, companyName) ==
  /\ SubmitEnabled(c)
  /\ ~Valid([form[c] EXCEPT !.companyName = companyName])
  /\ form[c].companyName # companyName \/ ~validationError[c]
  /\ form' = [form EXCEPT ![c].companyName = companyName]
  /\ validationError' = [validationError EXCEPT ![c] = TRUE]
  /\ UNCHANGED << sharedVars, pc, data, todo, documentPaths,
                  anyUploadsSucceeded, isUploading, resp, insertReq, calls,
                  insertAttempts, insertResult, written, toasts, sent >>

\* The notifications and insert() calls of the run in progress (a run that
\* starts from the idle form has none yet).
RunToasts(c) == IF pc[c] = "idle" THEN <<>> ELSE toasts[c]
RunInserts(c) == IF pc[c] = "idle" THEN 0 ELSE insertAttempts[c]

\* Mutant of Finish: the busy flag is cleared on the success path only, not
\* in a finally block.
FinishNoClear(c, toast) ==
  /\ toasts' = [toasts EXCEPT ![c] = Append(RunToasts(c), toast)]
  /\ isUploading' = [isUploading EXCEPT ![c] =
                       @ /\ toast # "Documents Uploaded"]
  /\ pc' = [pc EXCEPT ![c] = "idle"]

\* The end of onSubmit: a notification, then the finally block.
Finish(c, toast) ==
  /\ toasts' = [toasts EXCEPT ![c] = Append(RunToasts(c), toast)]
  /\ isUploading' = [isUploading EXCEPT ![c] = FALSE]
  /\ pc' = [pc EXCEPT ![c] = "idle"]

\* Mutant of AfterLoops: insert() is called whether or not an upload succeeded.
AfterLoopsAlways(c, values, paths, any) ==
  /\ insertReq' = [insertReq EXCEPT ![c] =
                     [company_name |-> values.companyName,
                      document_paths |-> paths,
                      uploaded_at |-> now]]
  /\ insertAttempts' = [insertAttempts EXCEPT ![c] = RunInserts(c) + 1]
  /\ toasts' = [toasts EXCEPT ![c] = RunToasts(c)]
  /\ isUploading' = [isUploading EXCEPT ![c] = TRUE]
  /\ pc' = [pc EXCEPT ![c] = "insert"]

\* Mutant of AfterLoops: with no successful upload the run ends with the
\* success notification.
AfterLoopsWrongToast(c, values, paths, any) ==
  IF any
  THEN AfterLoopsAlways(c, values, paths, any)
  ELSE /\ Finish(c, "Documents Uploaded")
       /\ insertReq' = [insertReq EXCEPT ![c] = NoRow]
       /\ insertAttempts' = [insertAttempts EXCEPT ![c] = RunInserts(c)]

\* onSubmit after the two loops (lines 116-138): insert() is called when some
\* upload succeeded, else the run ends with "Upload Failed".
AfterLoops(c, values, paths, any) ==
  IF any
  THEN /\ insertReq' = [insertReq EXCEPT ![c] =
                          [company_name |-> values.companyName,
                           document_paths |-> paths,
                           uploaded_at |-> now]]
       /\ insertAttempts' = [insertAttempts EXCEPT ![c] = RunInserts(c) + 1]
       /\ toasts' = [toasts EXCEPT ![c] = RunToasts(c)]
       /\ isUploading' = [isUploading EXCEPT ![c] = TRUE]
       /\ pc' = [pc EXCEPT ![c] = "insert"]
  ELSE /\ Finish(c, "Upload Failed")
       /\ insertReq' = [insertReq EXCEPT ![c] = NoRow]
       /\ insertAttempts' = [insertAttempts EXCEPT ![c] = RunInserts(c)]

\* Mutant of InitialPaths: only the categories the users select files for.
InitialPathsPartial == [key \in SelectableKeys |-> <<>>]

\* documentPaths after "Initialize paths" (lines 91-94).
InitialPaths == [key \in DocKeys |-> <<>>]

\* The user leaves the form holding valid `values` and presses the submit
\* button: handleSubmit calls onSubmit, which runs up to its first await.
\* `plan` is Plan(values.files).
OnSubmit(c, values, plan) ==
  /\ SubmitEnabled(c)
  /\ Valid(values)
  /\ sent[c] + Len(plan) <= MaxFiles
  /\ LET paths == InitialPaths
     IN  /\ insertResult' = [insertResult EXCEPT ![c] = "none"]
         /\ data' = [data EXCEPT ![c] = values]
         /\ form' = [form EXCEPT ![c] = values]
         /\ sent' = [sent EXCEPT ![c] = @ + Len(plan)]
         /\ validationError' = [validationError EXCEPT ![c] = FALSE]
         /\ documentPaths' = [documentPaths EXCEPT ![c] = paths]
         /\ anyUploadsSucceeded' = [anyUploadsSucceeded EXCEPT ![c] = FALSE]
         /\ written' = [written EXCEPT ![c] = 0]
         /\ resp' = [resp EXCEPT ![c] = NoResp]
         /\ IF plan # <<>>
            THEN /\ todo' = [todo EXCEPT ![c] = Tail(plan)]
                 /\ calls' = [calls EXCEPT ![c] = <<CallAt(values, Head(plan))>>]
                 /\ isUploading' = [isUploading EXCEPT ![c] = TRUE]
                 /\ pc' = [pc EXCEPT ![c] = "fetch"]
                 /\ toasts' = [toasts EXCEPT ![c] = <<>>]
                 /\ insertAttempts' = [insertAttempts EXCEPT ![c] = 0]
                 /\ insertReq' = [insertReq EXCEPT ![c] = NoRow]
            ELSE /\ todo' = [todo EXCEPT ![c] = <<>>]
                 /\ calls' = [calls EXCEPT ![c] = <<>>]
                 /\ AfterLoops(c, values, paths, FALSE)
  /\ UNCHANGED sharedVars

\* The uploadFile call onSubmit is waiting for.
Current(c) == calls[c][Len(calls[c])]

\* Mutant of Pushed: the path is pushed without the test of line 105.
PushedAlways(paths, folder, path) ==
  [paths EXCEPT ![folder] = Append(@, path)]

\* Mutant of Pushed: the path is put in front of the list.
PushedFront(paths, folder, path) ==
  IF path # <<>> THEN [paths EXCEPT ![folder] = <<path>> \o @] ELSE paths

\* Mutant of Pushed: the returned path is not kept.
PushedNever(paths, folder, path) == paths

\* Lines 105-106: if (path) documentPaths[doc.key].push(path)
Pushed(paths, folder, path) ==
  IF path # <<>> THEN [paths EXCEPT ![folder] = Append(@, path)] ELSE paths

\* Mutant of Returned: a file that fails to upload is notified to the user.
ReturnedNotifies(c, path) ==
  LET paths == Pushed(documentPaths[c], Current(c).folder, path)
      any   == anyUploadsSucceeded[c] \/ path # <<>>
      done  == [calls[c] EXCEPT ![Len(calls[c])].returned = TRUE,
                                ![Len(calls[c])].path = path]
  IN  /\ documentPaths' = [documentPaths EXCEPT ![c] = paths]
      /\ anyUploadsSucceeded' = [anyUploadsSucceeded EXCEPT ![c] = any]
      /\ resp' = [resp EXCEPT ![c] = NoResp]
      /\ IF todo[c] # <<>>
         THEN /\ todo' = [todo EXCEPT ![c] = Tail(@)]
              /\ calls' = [calls EXCEPT ![c] =
                             Append(done, CallAt(data[c], Head(todo[c])))]
              /\ pc' = [pc EXCEPT ![c] = "fetch"]
              /\ toasts' = [toasts EXCEPT ![c] =
                              IF path = <<>> THEN Append(@, "Upload Failed")
                              ELSE @]
              /\ UNCHANGED << insertReq, insertAttempts, isUploading >>
         ELSE /\ todo' = todo
              /\ calls' = [calls EXCEPT ![c] = done]
              /\ AfterLoops(c, data[c], paths, any)
      /\ UNCHANGED << db, now, epoch, viewer, directCalls, form,
                      validationError, data, insertResult, written, sent >>

\* Mutant of Returned: a failed upload ends the loops.
ReturnedStopsOnFailure(c, path) ==
  LET paths == Pushed(documentPaths[c], Current(c).folder, path)
      any   == anyUploadsSucceeded[c] \/ path # <<>>
      done  == [calls[c] EXCEPT ![Len(calls[c])].returned = TRUE,
                                ![Len(calls[c])].path = path]
  IN  /\ documentPaths' = [documentPaths EXCEPT ![c] = paths]
      /\ anyUploadsSucceeded' = [anyUploadsSucceeded EXCEPT ![c] = any]
      /\ resp' = [resp EXCEPT ![c] = NoResp]
      /\ IF todo[c] # <<>> /\ path # <<>>
         THEN /\ todo' = [todo EXCEPT ![c] = Tail(@)]
              /\ calls' = [calls EXCEPT ![c] =
                             Append(done, CallAt(data[c], Head(todo[c])))]
              /\ pc' = [pc EXCEPT ![c] = "fetch"]
              /\ UNCHANGED << insertReq, insertAttempts, toasts, isUploading >>
         ELSE /\ todo' = todo
              /\ calls' = [calls EXCEPT ![c] = done]
              /\ AfterLoops(c, data[c], paths, any)
      /\ UNCHANGED << db, now, epoch, viewer, directCalls, form,
                      validationError, data, insertResult, written, sent >>

\* uploadFile returned `path` (null as <<>>): lines 105-108, then the next
\* iteration of the loops or the code after them.
Returned(c, path) ==
  LET paths == Pushed(documentPaths[c], Current(c).folder, path)
      any   == anyUploadsSucceeded[c] \/ path # <<>>
      done  == [calls[c] EXCEPT ![Len(calls[c])].returned = TRUE,
                                ![Len(calls[c])].path = path]
  IN  /\ documentPaths' = [documentPaths EXCEPT ![c] = paths]
      /\ anyUploadsSucceeded' = [anyUploadsSucceeded EXCEPT ![c] = any]
      /\ resp' = [resp EXCEPT ![c] = NoResp]
      /\ IF todo[c] # <<>>
         THEN /\ todo' = [todo EXCEPT ![c] = Tail(@)]
              /\ calls' = [calls EXCEPT ![c] =
                             Append(done, CallAt(data[c], Head(todo[c])))]
              /\ pc' = [pc EXCEPT ![c] = "fetch"]
              /\ UNCHANGED << insertReq, insertAttempts, toasts, isUploading >>
         ELSE /\ todo' = todo
              /\ calls' = [calls EXCEPT ![c] = done]
              /\ AfterLoops(c, data[c], paths, any)
      /\ UNCHANGED << db, now, epoch, viewer, directCalls, form, validationError, data,
                      insertResult, written, sent >>

\* Mutant of FetchFails: the rejection is not caught around the call and ends
\* the run in onSubmit's outer catch.
FetchFailsUncaught(c) ==
  /\ pc[c] = "fetch"
  /\ Finish(c, "Something went wrong")
  /\ UNCHANGED << sharedVars, form, validationError, data, todo, documentPaths,
                  anyUploadsSucceeded, resp, insertReq, calls, insertAttempts,
                  insertResult, written, sent >>

\* fetch() rejects before the request reaches the endpoint: uploadFile's
\* catch returns null.
FetchFails(c) ==
  /\ pc[c] = "fetch"
  /\ Returned(c, <<>>)
  /\ UNCHANGED << storage, lastCall >>

\* The endpoint handles the form's request.
ProxyServes(c, backend) ==
  /\ pc[c] = "fetch"
  /\ LET req == FormData(Current(c), data[c].companyName)
         r   == POST(req, storage, Timestamp(epoch, now), backend)
     IN  /\ storage' = r.store
         /\ resp' = [resp EXCEPT ![c] = r.resp]
  /\ pc' = [pc EXCEPT ![c] = "served"]
  /\ UNCHANGED << db, now, epoch, viewer, lastCall, directCalls, form,
                  validationError, data, todo,
                  documentPaths, anyUploadsSucceeded, isUploading, insertReq,
                  calls, insertAttempts, insertResult, written, toasts, sent >>

\* response.ok is false: null; else result.path.
PathOf(response) ==
  IF response.status < 200 \/ response.status > 299 THEN <<>> ELSE response.path

\* The response reaches uploadFile.
ResponseArrives(c) ==
  /\ pc[c] = "served"
  /\ Returned(c, PathOf(resp[c]))
  /\ UNCHANGED << storage, lastCall >>

\* The response is lost on its way back: fetch() rejects, uploadFile's catch
\* returns null.
ResponseLost(c) ==
  /\ pc[c] = "served"
  /\ Returned(c, <<>>)
  /\ UNCHANGED << storage, lastCall >>

\* The result of supabase.from("customer_documents_multi").insert(row).
InsertOutcomes == {"ok", "error", "throws"}

\* Mutant of InsertReturns: after a failed insert the run's objects are removed.
InsertReturnsCleanup(c, outcome) ==
  /\ pc[c] = "insert"
  /\ insertResult' = [insertResult EXCEPT ![c] = outcome]
  /\ IF outcome = "ok"
     THEN /\ db' = Append(db, insertReq[c])
          /\ written' = [written EXCEPT ![c] = Len(db) + 1]
          /\ Finish(c, "Documents Uploaded")
          /\ form' = [form EXCEPT ![c] = DefaultValues]
          /\ storage' = storage
     ELSE /\ Finish(c, IF outcome = "error" THEN "Database Error"
                       ELSE "Something went wrong")
          /\ storage' = storage \ { calls[c][n].path : n \in 1..Len(calls[c]) }
          /\ UNCHANGED << db, written, form >>
  /\ UNCHANGED << now, epoch, viewer, lastCall, directCalls, validationError, data,
                  todo, documentPaths, anyUploadsSucceeded, resp, insertReq,
                  calls, insertAttempts, sent >>

\* Mutant of InsertReturns: the form is reset however insert() settles.
InsertReturnsResetAlways(c, outcome) ==
  /\ pc[c] = "insert"
  /\ insertResult' = [insertResult EXCEPT ![c] = outcome]
  /\ form' = [form EXCEPT ![c] = DefaultValues]
  /\ IF outcome = "ok"
     THEN /\ db' = Append(db, insertReq[c])
          /\ written' = [written EXCEPT ![c] = Len(db) + 1]
          /\ Finish(c, "Documents Uploaded")
     ELSE /\ Finish(c, IF outcome = "error" THEN "Database Error"
                       ELSE "Something went wrong")
          /\ UNCHANGED << db, written >>
  /\ UNCHANGED << storage, now, epoch, viewer, lastCall, directCalls,
                  validationError, data,
                  todo, documentPaths, anyUploadsSucceeded, resp, insertReq,
                  calls, insertAttempts, sent >>

\* Mutant of InsertReturns: the row replaces the company's earlier row.
InsertReturnsUpsert(c, outcome) ==
  /\ pc[c] = "insert"
  /\ insertResult' = [insertResult EXCEPT ![c] = outcome]
  /\ IF outcome = "ok"
     THEN /\ LET same == { n \in 1..Len(db) :
                            db[n].company_name = insertReq[c].company_name }
             IN  IF same = {}
                 THEN /\ db' = Append(db, insertReq[c])
                      /\ written' = [written EXCEPT ![c] = Len(db) + 1]
                 ELSE \E n \in same :
                        /\ db' = [db EXCEPT ![n] = insertReq[c]]
                        /\ written' = [written EXCEPT ![c] = n]
          /\ Finish(c, "Documents Uploaded")
          /\ form' = [form EXCEPT ![c] = DefaultValues]
     ELSE /\ Finish(c, IF outcome = "error" THEN "Database Error"
                       ELSE "Something went wrong")
          /\ UNCHANGED << db, written, form >>
  /\ UNCHANGED << storage, now, epoch, viewer, lastCall, directCalls,
                  validationError, data,
                  todo, documentPaths, anyUploadsSucceeded, resp, insertReq,
                  calls, insertAttempts, sent >>

\* insert() settles: lines 118-133, then the finally block of line 144.
InsertReturns(c, outcome) ==
  /\ pc[c] = "insert"
  /\ insertResult' = [insertResult EXCEPT ![c] = outcome]
  /\ IF outcome = "ok"
     THEN /\ db' = Append(db, insertReq[c])
          /\ written' = [written EXCEPT ![c] = Len(db) + 1]
          /\ Finish(c, "Documents Uploaded")
          /\ form' = [form EXCEPT ![c] = DefaultValues]
     ELSE /\ Finish(c, IF outcome = "error" THEN "Database Error"
                       ELSE "Something went wrong")
          /\ UNCHANGED << db, written, form >>
  /\ UNCHANGED << storage, now, epoch, viewer, lastCall, directCalls,
                  validationError, data,
                  todo, documentPaths, anyUploadsSucceeded, resp, insertReq,
                  calls, insertAttempts, sent >>

(* ------------------------------ environment ---------------------------- *)

\* Another caller posts a request to the endpoint.
DirectPOST(req, backend) ==
  /\ directCalls < MaxDirect
  /\ directCalls' = directCalls + 1
  /\ LET r == POST(req, storage, Timestamp(epoch, now), backend)
     IN  /\ storage' = r.store
         /\ lastCall' = [req |-> req, at |-> now, resp |-> r.resp,
                         attempts |-> r.attempts,
                         backendError |-> r.backendError,
                         uploaded |-> r.uploaded,
                         created |-> r.store \ storage]
  /\ UNCHANGED << db, now, epoch, viewer, form, validationError, pc, data, todo,
                  documentPaths, anyUploadsSucceeded, isUploading, resp,
                  insertReq, calls, insertAttempts, insertResult, written, toasts, sent >>

\* A millisecond passes.
Tick ==
  /\ now < MaxTime
  /\ now' = now + 1
  /\ UNCHANGED << storage, db, epoch, viewer, lastCall, directCalls, form,
                  validationError,
                  pc, data, todo, documentPaths, anyUploadsSucceeded,
                  isUploading, resp, insertReq, calls, insertAttempts,
                  insertResult, written, toasts, sent >>

(* --------------------------------- Viewer ------------------------------ *)

orchestratorVars ==
  << form, validationError, pc, data, todo, documentPaths,
     anyUploadsSucceeded, isUploading, resp, insertReq, calls, insertAttempts,
     insertResult, written, toasts, sent >>

\* Values of the document_paths column other writers store: no key, the
\* twelve keys with empty lists, with one list of one path, with two lists.
\* (A null list is rendered like an empty one and is written <<>>.)
TablePaths ==
  { <<>>,
    InitialPaths,
    [InitialPaths EXCEPT !["msds"] = << <<"m", "s", "d", "s", "/", "k">> >>],
    [InitialPaths EXCEPT !["tk10"] = << <<"t", "k", "1", "0", "/", "k">>,
                                       <<"t", "k", "1", "0", "/", "l">> >>,
                         !["msds"] = << <<"m", "s", "d", "s", "/", "k">> >>] }

\* Rows of customer_documents_multi as the Submission interface admits them:
\* a row whose document_paths is null has no such field.
TableRows ==
  { [company_name |-> <<"A", ".">>, uploaded_at |-> t] : t \in 0..MaxTime }
  \cup
  { [company_name |-> <<"A", ".">>, document_paths |-> paths, uploaded_at |-> t] :
      paths \in TablePaths, t \in 0..MaxTime }

\* Another writer inserts a row, stamped by its own clock.
TableInsert(row) ==
  /\ Len(db) < MaxRows
  /\ db' = Append(db, row)
  /\ UNCHANGED << storage, now, epoch, viewer, lastCall, directCalls,
                  orchestratorVars >>

\* .select("id, company_name, document_paths, uploaded_at"): the rows, each
\* with the id the table gave it.
Select(table) ==
  [n \in 1..Len(table) |->
     [f \in DOMAIN table[n] \cup {"id"} |-> IF f = "id" THEN n ELSE table[n][f]]]

\* Mutant of OrderBy: the rows come back in insertion order.
OrderByInsertion(rows) == {rows}

\* .order("uploaded_at", { ascending: false }): the orders in which the
\* database may return the rows (rows of equal uploaded_at in any order).
OrderBy(rows) ==
  LET sorted(q) ==
        \A i, j \in 1..Len(rows) :
          i < j => rows[q[i]].uploaded_at >= rows[q[j]].uploaded_at
  IN  IF rows = <<>> THEN {<<>>}
      ELSE { [n \in 1..Len(rows) |-> rows[q[n]]] :
               q \in { r \in Permutations(1..Len(rows)) : sorted(r) } }

FetchOutcomes == {"ok", "error", "throws"}

MsgFailedToLoad == "Failed to load submissions. backend unavailable"
MsgUnexpected == "An unexpected error occurred."

\* The query of fetchSubmissions settles (lines 120-137).
FetchReturns(outcome) ==
  /\ viewer.pending
  /\ IF outcome = "ok"
     THEN \E rows \in OrderBy(Select(db)) :
            viewer' = [submissions |-> rows, loading |-> FALSE, error |-> "",
                       pending |-> FALSE]
     ELSE viewer' = [submissions |-> viewer.submissions, loading |-> FALSE,
                     error |-> IF outcome = "error" THEN MsgFailedToLoad
                               ELSE MsgUnexpected,
                     pending |-> FALSE]
  /\ UNCHANGED << storage, db, now, epoch, lastCall, directCalls,
                  orchestratorVars >>

\* The page is loaded again.
Reload ==
  /\ viewer # Mounted
  /\ viewer' = Mounted
  /\ UNCHANGED << storage, db, now, epoch, lastCall, directCalls,
                  orchestratorVars >>

MsgNoDocuments == "No documents found for this submission."
MsgNoDocumentsOfType == "No documents found for this submission type."

\* Object.keys(document_paths), the category keys in the table's order.
KeysOf(paths) ==
  SelectSeq(documentTypes, LAMBDA key : key \in DOMAIN paths)

\* Mutant of Render: the placeholder for all-empty lists is not appended.
RenderNoConcat(submission) ==
  IF "document_paths" \notin DOMAIN submission
     \/ DOMAIN submission.document_paths = {}
  THEN [id |-> submission.id, entries |-> <<>>,
        placeholders |-> <<MsgNoDocuments>>]
  ELSE LET paths == submission.document_paths
           shown == SelectSeq(KeysOf(paths), LAMBDA key : Len(paths[key]) > 0)
       IN  [id |-> submission.id,
            entries |-> [n \in 1..Len(shown) |->
                           [docType |-> shown[n], paths |-> paths[shown[n]]]],
            placeholders |-> <<>>]

\* What the page shows under "Uploaded Documents:" for one submission (lines
\* 195-232): an entry per category kept by the filter, and the placeholders.
Render(submission) ==
  IF "document_paths" \notin DOMAIN submission
     \/ DOMAIN submission.document_paths = {}
  THEN [id |-> submission.id, entries |-> <<>>,
        placeholders |-> <<MsgNoDocuments>>]
  ELSE LET paths == submission.document_paths
           shown == SelectSeq(KeysOf(paths), LAMBDA key : Len(paths[key]) > 0)
       IN  [id |-> submission.id,
            entries |-> [n \in 1..Len(shown) |->
                           [docType |-> shown[n], paths |-> paths[shown[n]]]],
            placeholders |->
              IF \A key \in DOMAIN paths : Len(paths[key]) = 0
              THEN <<MsgNoDocumentsOfType>> ELSE <<>>]

\* The cards of the page, in the order of submissions.map (lines 166-168):
\* none while loading or after an error.
Page ==
  IF ~viewer.loading /\ viewer.error = ""
  THEN [n \in 1..Len(viewer.submissions) |-> Render(viewer.submissions[n])]
  ELSE <<>>

(* ---------------------------- specifications --------------------------- *)

\* What a user submits: the form's values, with the order Plan gives its files.
Submissions ==
  { [values |-> [companyName |-> name, files |-> files], plan |-> Plan(files)] :
      name \in CompanyNames, files \in Selections }

\* The form in use.
Users == {"c1"}

\* The portal: a user submitting the form, the endpoint, the bucket, the table.
Next ==
  \/ \E c \in Users, companyName \in CompanyNames : SubmitInvalid(c, companyName)
  \/ \E c \in Users, s \in Submissions : OnSubmit(c, s.values, s.plan)
  \/ \E c \in Users : FetchFails(c)
  \/ \E c \in Users, backend \in BackendOutcomes : ProxyServes(c, backend)
  \/ \E c \in Users : ResponseArrives(c)
  \/ \E c \in Users : ResponseLost(c)
  \/ \E c \in Users, outcome \in InsertOutcomes : InsertReturns(c, outcome)
  \/ Tick

Spec == Init /\ [][Next]_vars

\* An upload call that is under way returns or fails; so does an insert.
UploadSettles(c) ==
  \/ FetchFails(c)
  \/ \E backend \in BackendOutcomes : ProxyServes(c, backend)
  \/ ResponseArrives(c)
  \/ ResponseLost(c)

InsertSettles(c) == \E outcome \in InsertOutcomes : InsertReturns(c, outcome)

\* The portal when every call that was issued eventually returns or fails.
SpecFair ==
  /\ Init
  /\ [][Next]_vars
  /\ \A c \in Users : WF_vars(UploadSettles(c)) /\ WF_vars(InsertSettles(c))

\* Two forms open at once, each submitting once, one file under either of two
\* company names.
PairNames == { <<"A", ".">>, <<"B", "1">> }

PairSubmissions ==
  { [values |-> [companyName |-> name, files |-> files], plan |-> Plan(files)] :
      name \in PairNames,
      files \in { FilesOf(<< <<"companyRegistration", <<"b">> >> >>) } }

NextTwo ==
  \/ \E c \in Clients, s \in PairSubmissions :
       sent[c] = 0 /\ OnSubmit(c, s.values, s.plan)
  \/ \E c \in Clients : FetchFails(c)
  \/ \E c \in Clients, backend \in BackendOutcomes : ProxyServes(c, backend)
  \/ \E c \in Clients : ResponseArrives(c)
  \/ \E c \in Clients : ResponseLost(c)
  \/ \E c \in Clients, outcome \in InsertOutcomes : InsertReturns(c, outcome)
  \/ Tick

SpecTwo == Init /\ [][NextTwo]_vars

\* The submissions of the worked example: company name "Acme Co." with no file,
\* or with the single file "Invoice #1.pdf" selected for commercialInvoice.
ExampleValues ==
  [companyName |-> <<"A", "c", "m", "e", " ", "C", "o", ".">>,
   files |-> [key \in DocKeys |->
                IF key = "commercialInvoice"
                THEN << MkFile(<<"I", "n", "v", "o", "i", "c", "e", " ", "#",
                                 "1", ".", "p", "d", "f">>, 1) >>
                ELSE <<>>]]

ExampleSubmissions ==
  { [values |-> values, plan |-> Plan(values.files)] :
      values \in { ExampleValues,
                   [ExampleValues EXCEPT !.files = DefaultValues.files] } }

\* The portal used for the worked example.
NextExample ==
  \/ \E c \in Users, companyName \in CompanyNames : SubmitInvalid(c, companyName)
  \/ \E c \in Users, s \in ExampleSubmissions : OnSubmit(c, s.values, s.plan)
  \/ \E c \in Users : FetchFails(c)
  \/ \E c \in Users, backend \in BackendOutcomes : ProxyServes(c, backend)
  \/ \E c \in Users : ResponseArrives(c)
  \/ \E c \in Users : ResponseLost(c)
  \/ \E c \in Users, outcome \in InsertOutcomes : InsertReturns(c, outcome)
  \/ Tick

\* The clock starts at 1700000000000.
SpecExample == InitAt(1700000) /\ [][NextExample]_vars

\* The whole portal: the form of the worked example, the endpoint it calls
\* and the submissions page.
NextPortal ==
  \/ NextExample
  \/ \E outcome \in FetchOutcomes : FetchReturns(outcome)
  \/ Reload

SpecPortal == Init /\ [][NextPortal]_vars

\* The submissions page over a table that other writers fill.
NextViewer ==
  \/ \E row \in TableRows : TableInsert(row)
  \/ \E outcome \in FetchOutcomes : FetchReturns(outcome)
  \/ Reload

SpecViewer == Init /\ [][NextViewer]_vars

\* The endpoint alone, serving arbitrary callers.
NextProxy ==
  \/ \E req \in DirectRequests, backend \in BackendOutcomes : DirectPOST(req, backend)
  \/ Tick

SpecProxy == Init /\ [][NextProxy]_vars

\* The endpoint computing storage keys for well-formed requests.
NextKeys ==
  \/ \E req \in KeyRequests : DirectPOST(req, "ok")
  \/ Tick

SpecKeys == Init /\ [][NextKeys]_vars

(* -------------------------------- claims ------------------------------- *)

\* The latest run of onSubmit on form c has ended.
RunOver(c) == pc[c] = "idle" /\ toasts[c] # <<>>

\* The positions, in calls[c], of the calls that returned a path.
Succeeded(c) ==
  { n \in 1..Len(calls[c]) : calls[c][n].returned /\ calls[c][n].path # <<>> }

\* The positions of the calls that returned without a path.
Failed(c) ==
  { n \in 1..Len(calls[c]) : calls[c][n].returned /\ calls[c][n].path = <<>> }

\* The (category, index) pairs of the files a submission selected.
SelectedFiles(values) ==
  UNION { { <<key, n>> : n \in 1..Len(values.files[key]) } : key \in DocKeys }

\* The twelve category keys the specification lists.
TwelveKeys ==
  { "companyRegistration", "companyDeclaration", "importPermit", "tk10",
    "tk11", "tk32", "tk31", "purchaseOrder", "idCardCopy", "msds",
    "commercialInvoice", "packingList" }

\* C1: in every run insert() is called at most once, only after some upload
\* call of the run returned a path, and a finished run has called it exactly
\* when some upload call returned a path.
C1_InsertIffUploadSucceeded ==
  \A c \in Clients :
    /\ insertAttempts[c] <= 1
    /\ insertAttempts[c] = 1 => Succeeded(c) # {}
    /\ RunOver(c) => (insertAttempts[c] = 1 <=> Succeeded(c) # {})

\* A finished run with one failed and one successful upload whose single
\* insert failed.
C1_Witness ==
  \E c \in Clients :
    /\ RunOver(c)
    /\ Failed(c) # {} /\ Succeeded(c) # {}
    /\ insertAttempts[c] = 1 /\ insertResult[c] = "error"

\* C2: a finished run in which no upload returned a path (no file selected,
\* or every upload failed) called insert() never and ended with the single
\* notification "Upload Failed".
C2_TotalFailure ==
  \A c \in Clients :
    (RunOver(c) /\ Succeeded(c) = {}) =>
      /\ insertAttempts[c] = 0
      /\ insertResult[c] = "none"
      /\ written[c] = 0
      /\ toasts[c] = <<"Upload Failed">>

\* A finished run whose two selected files both failed to upload.
C2_Witness ==
  \E c \in Clients :
    RunOver(c) /\ Len(calls[c]) = 2 /\ Cardinality(Failed(c)) = 2

\* C3: when a run has ended, every selected file of every category was passed
\* to uploadFile exactly once, whatever uploads failed, and no other call was
\* made.
C3_EveryFileSentOnce ==
  \A c \in Clients :
    RunOver(c) =>
      /\ \A at \in SelectedFiles(data[c]) :
           Cardinality({ n \in 1..Len(calls[c]) :
                           /\ calls[c][n].folder = at[1]
                           /\ calls[c][n].index = at[2]
                           /\ calls[c][n].file = data[c].files[at[1]][at[2]]
                           /\ calls[c][n].returned }) = 1
      /\ Len(calls[c]) = Cardinality(SelectedFiles(data[c]))

\* A finished run whose first upload failed and whose second succeeded.
C3_Witness ==
  \E c \in Clients :
    RunOver(c) /\ Len(calls[c]) = 2 /\ 1 \in Failed(c) /\ 2 \in Succeeded(c)

\* C4: the record a run wrote holds, under every category, one entry per
\* upload call of that category that returned a path - that path - and
\* nothing else.
C4_ListsAreTheSuccessfulPaths ==
  \A c \in Clients :
    (RunOver(c) /\ written[c] # 0) =>
      \A key \in DocKeys :
        LET list == db[written[c]].document_paths[key]
            mine == { n \in Succeeded(c) : calls[c][n].folder = key }
        IN  /\ Len(list) = Cardinality(mine)
            /\ \A n \in mine : \E m \in 1..Len(list) : list[m] = calls[c][n].path
            /\ \A m \in 1..Len(list) :
                 /\ list[m] # <<>>
                 /\ \E n \in mine : list[m] = calls[c][n].path

\* A record written for one selected file that uploaded: eleven empty lists
\* and one singleton.
C4_Witness ==
  \E c \in Clients :
    /\ RunOver(c) /\ written[c] # 0
    /\ Cardinality(SelectedFiles(data[c])) = 1
    /\ LET paths == db[written[c]].document_paths
       IN  /\ Cardinality({ key \in DOMAIN paths : paths[key] = <<>> }) = 11
           /\ Cardinality({ key \in DOMAIN paths : Len(paths[key]) = 1 }) = 1

\* C5: in the record a run wrote, the paths of a category stand in the order
\* in which their files were selected.
C5_SelectionOrder ==
  \A c \in Clients :
    (RunOver(c) /\ written[c] # 0) =>
      \A n, m \in Succeeded(c) :
        (calls[c][n].folder = calls[c][m].folder
           /\ calls[c][n].index < calls[c][m].index) =>
          LET list == db[written[c]].document_paths[calls[c][n].folder]
          IN  \E a, b \in 1..Len(list) :
                a < b /\ list[a] = calls[c][n].path /\ list[b] = calls[c][m].path

\* A record with two paths in one category.
C5_Witness ==
  \E c \in Clients :
    /\ RunOver(c) /\ written[c] # 0
    /\ \E key \in DocKeys : Len(db[written[c]].document_paths[key]) = 2

\* C6: the document_paths of every record has exactly the twelve category
\* keys.
C6_TwelveKeys ==
  \A n \in 1..Len(db) :
    /\ DOMAIN db[n].document_paths = TwelveKeys
    /\ Cardinality(DOMAIN db[n].document_paths) = 12

\* A record of a run in which one category's only upload failed.
C6_Witness ==
  \E c \in Clients :
    /\ RunOver(c) /\ written[c] # 0 /\ Failed(c) # {}
    /\ \E key \in DocKeys :
         data[c].files[key] # <<>> /\ db[written[c]].document_paths[key] = <<>>

\* C7: when insert() returned an error, the run ended with the single
\* notification "Database Error", the table holds no record of the run, and
\* every object the run uploaded is in the bucket and in no record.
C7_InsertErrorLeavesOrphans ==
  \A c \in Clients :
    (RunOver(c) /\ insertResult[c] = "error") =>
      /\ toasts[c] = <<"Database Error">>
      /\ written[c] = 0
      /\ \A n \in 1..Len(db) : db[n] # insertReq[c]
      /\ Succeeded(c) # {}
      /\ \A n \in Succeeded(c) :
           /\ calls[c][n].path \in storage
           /\ \A m \in 1..Len(db) :
                \A key \in DOMAIN db[m].document_paths :
                  \A k \in 1..Len(db[m].document_paths[key]) :
                    db[m].document_paths[key][k] # calls[c][n].path

\* A failed insert after an earlier submission was recorded.
C7_Witness ==
  \E c \in Clients :
    RunOver(c) /\ insertResult[c] = "error" /\ Len(db) >= 1

\* A request was handled for a direct caller.
Handled == directCalls > 0

\* C8 as stated: a request whose file, folder or company name is absent or
\* empty (a file of zero bytes included) is answered 400 with an error body
\* and writes no object.
C8_AbsentOrEmptyRejected ==
  (Handled /\ (\/ lastCall.req.file.kind = "none"
               \/ lastCall.req.file.kind = "File" /\ lastCall.req.file.size = 0
               \/ lastCall.req.folder = <<>>
               \/ lastCall.req.companyName = <<>>)) =>
    /\ lastCall.resp.status = 400
    /\ lastCall.resp.error # ""
    /\ lastCall.resp.path = <<>>
    /\ lastCall.attempts = <<>>
    /\ lastCall.created = {}

\* C8, amended: a request without a file field, or whose folder or company
\* name is absent or empty, is answered 400 with an error body and writes no
\* object; a file that is present but of zero bytes is not rejected.
C8_MissingFieldRejected ==
  /\ (Handled /\ (\/ lastCall.req.file.kind = "none"
                  \/ lastCall.req.folder = <<>>
                  \/ lastCall.req.companyName = <<>>)) =>
       /\ lastCall.resp.status = 400
       /\ lastCall.resp.error # ""
       /\ lastCall.resp.path = <<>>
       /\ lastCall.attempts = <<>>
       /\ lastCall.created = {}
  /\ (Handled /\ lastCall.req.file.kind = "File"
              /\ lastCall.req.file.size = 0
              /\ lastCall.req.folder # <<>>
              /\ lastCall.req.companyName # <<>>) =>
       /\ lastCall.resp.status # 400
       /\ Len(lastCall.attempts) = 1

\* A request with a file and a folder but an empty company name, rejected.
C8_Witness ==
  /\ Handled
  /\ lastCall.req.file.kind = "File" /\ lastCall.req.file.size > 0
  /\ lastCall.req.folder # <<>>
  /\ lastCall.req.companyName = <<>>
  /\ lastCall.resp.status = 400

\* C9: when the storage backend rejects the write, the response is 500, its
\* error is the backend's message, and it carries no path.
C9_BackendErrorPropagated ==
  (Handled /\ lastCall.backendError # "") =>
    /\ lastCall.resp.status = 500
    /\ lastCall.resp.error = lastCall.backendError
    /\ lastCall.resp.path = <<>>
    /\ lastCall.created = {}

\* The backend rejected a write with its own message.
C9_Witness ==
  Handled /\ lastCall.backendError = MsgBackend /\ lastCall.attempts # <<>>

\* C10: a request with a file, a folder and a company name makes exactly one
\* write attempt; when the write succeeds exactly one object is created, at
\* folder "/" storage key, and the response is 200 with that path.
C10_OneObjectAtFolderKey ==
  (Handled /\ lastCall.req.file.kind = "File" /\ lastCall.req.folder # <<>>
           /\ lastCall.req.companyName # <<>>) =>
    LET key  == StorageFileName(lastCall.req.companyName,
                                lastCall.req.file.name,
                                Timestamp(epoch, lastCall.at))
        path == lastCall.req.folder \o <<"/">> \o key
    IN  /\ Len(lastCall.attempts) = 1
        /\ lastCall.uploaded =>
             /\ lastCall.created = {path}
             /\ lastCall.resp.status = 200
             /\ lastCall.resp.path = path
             /\ lastCall.resp.error = ""

\* A request whose object was stored.
C10_Witness ==
  /\ Handled /\ lastCall.uploaded
  /\ Cardinality(lastCall.created) = 1
  /\ lastCall.resp.status = 200

(* ----------------------- claims on the storage key --------------------- *)

\* The endpoint computed a storage key for the last request.
KeyCall == Handled /\ lastCall.attempts # <<>>

\* The storage key of a call: its object path without "<folder>/".
StorageKey(call) ==
  SubSeq(call.attempts[1], Len(call.req.folder) + 2, Len(call.attempts[1]))

\* The characters [a-zA-Z0-9._-].
KeyAlphabet ==
  Range(LowerSeq) \cup Range(UpperSeq) \cup Range(DigitSeq) \cup {".", "_", "-"}

\* The positions of '.' in a string.
Dots(str) == { n \in 1..Len(str) : str[n] = "." }

LastDot(str) == CHOOSE n \in Dots(str) : \A m \in Dots(str) : m <= n

\* The substring after the last '.', empty when there is no '.'.
AfterLastDot(str) ==
  IF Dots(str) = {} THEN <<>> ELSE SubSeq(str, LastDot(str) + 1, Len(str))

\* Everything before the last '.', the whole string when there is no '.'.
BeforeLastDot(str) ==
  IF Dots(str) = {} THEN str ELSE SubSeq(str, 1, LastDot(str) - 1)

\* The base-name portion of a call's key: what stands between
\* "<company>_" and "_<timestamp>.<extension>".
BasePortion(call) ==
  LET key == StorageKey(call)
  IN  SubSeq(key, Len(call.req.companyName) + 2,
             Len(key) - Len(AfterLastDot(key))
               - Len(TimestampDigits(Timestamp(epoch, call.at))) - 2)

\* C11: the extension part of the storage key is the file name's substring
\* after its last '.', unchanged, and is empty when the name has no '.'.
C11_ExtensionPreserved ==
  KeyCall =>
    AfterLastDot(StorageKey(lastCall)) = AfterLastDot(lastCall.req.file.name)

\* C12: the sanitized base-name portion of the storage key has only characters
\* of [a-zA-Z0-9._-], also for names with accented or other non-ASCII letters.
C12_BaseNameSafe ==
  KeyCall => Range(BasePortion(lastCall)) \subseteq KeyAlphabet

\* A key was computed for a file name with an accented and a non-ASCII letter.
C12_Witness ==
  /\ KeyCall
  /\ lastCall.req.file.name = <<"e_acute", "sharp_s", ".", "P">>
  /\ BasePortion(lastCall) = <<"e", "_">>

\* C13: the key is <sanitized-company>_<sanitized-base>_<timestamp>.<extension>
\* with the sanitized base computed from the part of the name before its last
\* '.', also for names without '.' and names whose only '.' comes first.
C13_KeyFormat ==
  KeyCall =>
    StorageKey(lastCall) =
      SafeCompanyName(lastCall.req.companyName) \o <<"_">> \o
      SafeBaseName(BeforeLastDot(lastCall.req.file.name)) \o <<"_">> \o
      TimestampDigits(Timestamp(epoch, lastCall.at)) \o <<".">> \o
      AfterLastDot(lastCall.req.file.name)

\* C14: a request with the company name and file name of the request before
\* it, handled at another time, gets another storage key.
C14_DistinctKeys ==
  [][ ( /\ directCalls' = directCalls + 1
        /\ lastCall.attempts # <<>>
        /\ lastCall'.attempts # <<>>
        /\ lastCall'.req.companyName = lastCall.req.companyName
        /\ lastCall'.req.file.name = lastCall.req.file.name
        /\ lastCall'.at # lastCall.at )
      => StorageKey(lastCall') # StorageKey(lastCall) ]_vars

\* The same file of the same company was stored at time 0 and at time 1.
C14_Witness ==
  /\ <<"m","s","d","s","/","a","_","_","a","_","_","0",".","p">> \in storage
  /\ <<"m","s","d","s","/","a","_","_","a","_","_","1",".","p">> \in storage
  /\ lastCall.req.file.name = <<"a", " ", ".", "p">>
  /\ lastCall.at = 1

\* C16: the whole storage key has only characters of [a-zA-Z0-9._-], so the
\* object path has exactly one '/'.
C16_WholeKeySafe ==
  KeyCall =>
    /\ Range(StorageKey(lastCall)) \subseteq KeyAlphabet
    /\ Cardinality({ n \in 1..Len(lastCall.attempts[1]) :
                       lastCall.attempts[1][n] = "/" }) = 1

\* The folder of an object path: what stands before its first '/'.
FolderOf(path) ==
  LET slashes == { n \in 1..Len(path) : path[n] = "/" }
  IN  IF slashes = {} THEN <<>>
      ELSE SubSeq(path, 1, (CHOOSE n \in slashes : \A m \in slashes : n <= m) - 1)

CategoryFolders == { Chars(key) : key \in TwelveKeys }

\* C17: every stored object is under the folder of one of the twelve
\* categories, and a request with any other folder creates no object.
C17_FolderIsCategory ==
  /\ \A path \in storage : FolderOf(path) \in CategoryFolders
  /\ (Handled /\ lastCall.req.folder \notin CategoryFolders) =>
       lastCall.created = {}

(* ------------------------------ worked example ------------------------- *)

\* commercialInvoice/acme_co__Invoice_1_1700000000000.pdf
ExamplePath ==
  << "c","o","m","m","e","r","c","i","a","l","I","n","v","o","i","c","e","/",
     "a","c","m","e","_","c","o","_","_","I","n","v","o","i","c","e","_","1",
     "_","1","7","0","0","0","0","0","0","0","0","0","0","0",".","p","d","f" >>

\* A run of the worked example wrote its record while the clock showed
\* 1700000000000.
ExampleRun(c) ==
  /\ RunOver(c)
  /\ written[c] > 0
  /\ data[c] = ExampleValues
  /\ epoch = 1700000 /\ now = 0

\* C15: "Acme Co." with the file "Invoice #1.pdf" for commercialInvoice at
\* time 1700000000000 is stored at
\* commercialInvoice/acme_co__Invoice_1_1700000000000.pdf, and the record
\* written has exactly that path as its commercialInvoice list.
C15_ExampleEndToEnd ==
  \A c \in Clients :
    ExampleRun(c) =>
      /\ ExamplePath \in storage
      /\ Len(calls[c]) = 1
      /\ calls[c][1].path = ExamplePath
      /\ db[written[c]].document_paths["commercialInvoice"] = <<ExamplePath>>
      /\ db[written[c]].company_name = ExampleValues.companyName

\* The worked example ran to its success notification.
C15_Witness ==
  \E c \in Clients :
    ExampleRun(c) /\ toasts[c] = <<"Documents Uploaded">>

(* --------------------------- claims on the Viewer ---------------------- *)

\* The page shows the submissions it fetched.
Shown == ~viewer.loading /\ viewer.error = "" /\ ~viewer.pending

\* The submission a card of the page stands for.
SubmissionOf(card) ==
  CHOOSE submission \in Range(viewer.submissions) : submission.id = card.id

\* C18: on the page a submission with a later uploaded_at stands before one
\* with an earlier uploaded_at, whatever their order of insertion.
C18_DescendingOrder ==
  \A i, j \in 1..Len(Page) :
    SubmissionOf(Page[i]).uploaded_at > SubmissionOf(Page[j]).uploaded_at
      => i < j

\* The page shows two submissions, the one inserted second being the later
\* one and standing first.
C18_Witness ==
  /\ Shown
  /\ Len(Page) = 2
  /\ Page[1].id = 2 /\ Page[2].id = 1
  /\ db[2].uploaded_at > db[1].uploaded_at

\* The categories of a submission whose path list is not empty.
NonEmptyCategories(submission) ==
  IF "document_paths" \notin DOMAIN submission THEN {}
  ELSE { key \in DOMAIN submission.document_paths :
           submission.document_paths[key] # <<>> }

\* C19: a card has one entry per category with a non-empty list and none for
\* the others; it has exactly one placeholder when no list is non-empty (also
\* for a null mapping and a mapping without keys) and none otherwise.
C19_EntriesAndPlaceholder ==
  \A n \in 1..Len(Page) :
    LET card == Page[n]
        cats == NonEmptyCategories(SubmissionOf(card))
    IN  /\ { card.entries[m].docType : m \in 1..Len(card.entries) } = cats
        /\ Len(card.entries) = Cardinality(cats)
        /\ Len(card.placeholders) = (IF cats = {} THEN 1 ELSE 0)

\* The page shows a submission with the twelve keys and only empty lists,
\* and one with a non-empty list.
C19_Witness ==
  /\ Shown
  /\ \E n \in 1..Len(Page) :
       /\ "document_paths" \in DOMAIN SubmissionOf(Page[n])
       /\ SubmissionOf(Page[n]).document_paths = InitialPaths
       /\ Len(Page[n].placeholders) = 1
  /\ \E n \in 1..Len(Page) : Len(Page[n].entries) = 2

(* ------------------------------- busy flag ----------------------------- *)

\* C20: isUploading is set for as long as a run of onSubmit is in progress
\* and is clear whenever none is, however the last run ended (success,
\* database error, total failure, exception).
C20_BusyWhileRunning ==
  \A c \in Clients : isUploading[c] <=> (pc[c] # "idle")

\* A run that ended in the outer catch, with the flag cleared.
C20_Witness ==
  \E c \in Clients :
    /\ RunOver(c)
    /\ insertResult[c] = "throws"
    /\ toasts[c] = <<"Something went wrong">>
    /\ ~isUploading[c]

(* ------------------------------ one run per form ----------------------- *)

\* C21: while a run of onSubmit started from a form is in progress, no other
\* run can start from that form.
C21_OneRunPerForm ==
  \A c \in Users :
    pc[c] # "idle" =>
      ~ENABLED (\E s \in Submissions : OnSubmit(c, s.values, s.plan))

\* A run waits for the response to its first upload while the form could
\* still send another file.
C21_Witness ==
  \E c \in Users :
    pc[c] = "served" /\ isUploading[c] /\ Len(calls[c]) = 1 /\ sent[c] < MaxFiles

(* -------------------------------- termination -------------------------- *)

\* The run of form c is over, having issued one upload call per selected
\* file, all returned, and at most one insert.
RunComplete(c) ==
  /\ RunOver(c)
  /\ Len(calls[c]) = Cardinality(SelectedFiles(data[c]))
  /\ \A n \in 1..Len(calls[c]) : calls[c][n].returned
  /\ insertAttempts[c] <= 1

\* C22: when every upload call and insert returns or fails, a run that has
\* started ends, after as many upload calls as files were selected and at
\* most one insert.
C22_Terminates ==
  \A c \in Users : (pc[c] # "idle") ~> RunComplete(c)

\* A run with two selected files is over after two upload calls and an insert.
C22_Witness ==
  \E c \in Users :
    RunComplete(c) /\ Len(calls[c]) = 2 /\ insertAttempts[c] = 1

(* ------------------------- concurrent submissions ---------------------- *)

\* The paths returned to the upload calls of form c's run.
OwnPaths(c) == { calls[c][n].path : n \in Succeeded(c) }

\* The paths a record lists.
RowPaths(row) ==
  UNION { Range(row.document_paths[key]) : key \in DOMAIN row.document_paths }

\* C23: when two forms submit concurrently, the record a run wrote holds the
\* run's own company name and exactly the paths returned to its own upload
\* calls, none returned to the other run, and the other run's insert leaves
\* it in place.
C23_Isolation ==
  \A c \in Clients :
    written[c] > 0 =>
      /\ written[c] <= Len(db)
      /\ db[written[c]].company_name = data[c].companyName
      /\ RowPaths(db[written[c]]) = OwnPaths(c)
      /\ \A d \in Clients \ {c} :
           /\ RowPaths(db[written[c]]) \cap OwnPaths(d) = {}
           /\ written[d] # written[c]

\* Both runs wrote their records under different company names, and the
\* record written first belongs to the insert that was issued last: the two
\* runs overlapped.
C23_Witness ==
  /\ written["c1"] > 0
  /\ written["c2"] > written["c1"]
  /\ db[written["c1"]].uploaded_at > db[written["c2"]].uploaded_at
  /\ db[written["c1"]].company_name # db[written["c2"]].company_name

(* ------------------------------ notifications -------------------------- *)

\* onSubmit was called on form c and returned.
RunEnded(c) == pc[c] = "idle" /\ data[c] # DefaultValues

\* C24: a run of onSubmit shows nothing while it uploads and ends with exactly
\* one notification: the success one when its record was written, "Database
\* Error" when insert() reported an error, "Upload Failed" when no upload
\* succeeded, "Something went wrong" after an exception.
C24_OneNotification ==
  \A c \in Users :
    /\ pc[c] # "idle" => toasts[c] = <<>>
    /\ RunEnded(c) =>
         /\ Len(toasts[c]) = 1
         /\ toasts[c][1] = "Documents Uploaded" <=> written[c] > 0
         /\ written[c] > 0 <=> insertResult[c] = "ok"
         /\ toasts[c][1] = "Database Error" <=> insertResult[c] = "error"
         /\ toasts[c][1] = "Something went wrong" <=> insertResult[c] = "throws"
         /\ toasts[c][1] = "Upload Failed" <=> Succeeded(c) = {}

\* A run in which one file failed and one was stored ended with the success
\* notification alone.
C24_Witness ==
  \E c \in Users :
    /\ RunEnded(c)
    /\ Failed(c) # {}
    /\ Succeeded(c) # {}
    /\ written[c] > 0
    /\ toasts[c] = <<"Documents Uploaded">>

(* ----------------------------- nothing is lost ------------------------- *)

\* The endpoint answered form c's request with a path in this step.
Stored(c) ==
  pc[c] = "fetch" /\ pc'[c] = "served" /\ resp'[c].status = 200

\* C25: no step of the endpoint, of the form or of the submissions page
\* changes or removes a record or a stored object: the bucket and the table
\* only grow, an upload that succeeds creates its object, and a step of the
\* submissions page leaves both as they are.
C25_Frame ==
  [][ /\ storage \subseteq storage'
      /\ Len(db') >= Len(db)
      /\ \A n \in 1..Len(db) : db'[n] = db[n]
      /\ \A c \in Users : Stored(c) => resp'[c].path \notin storage
      /\ viewer' # viewer => storage' = storage /\ db' = db ]_vars

\* The submissions page shows two records, listing different objects that
\* are both in the bucket.
C25_Witness ==
  /\ Len(db) = 2
  /\ Len(viewer.submissions) = 2
  /\ Cardinality(storage) = 2
  /\ RowPaths(db[1]) # RowPaths(db[2])
  /\ RowPaths(db[1]) \cup RowPaths(db[2]) = storage

(* --------------------------- order of the calls ------------------------ *)

\* The place of a category in documentTypes.
Position(key) == CHOOSE k \in 1..Len(documentTypes) : documentTypes[k] = key

\* File <<key1, i1>> comes before file <<key2, i2>>: an earlier category, or
\* the same category and an earlier place in the selection.
Before(key1, i1, key2, i2) ==
  \/ Position(key1) < Position(key2)
  \/ key1 = key2 /\ i1 < i2

\* C26: the upload calls of a run are issued one at a time, for the
\* categories in the order of documentTypes and within a category in the
\* order of selection, skipping no selected file, each after the one before
\* has returned; insert() is called after the last of them has returned.
C26_Ordered ==
  \A c \in Users :
    LET run == calls[c]
    IN  /\ \A m, n \in 1..Len(run) :
             m < n => /\ Before(run[m].folder, run[m].index,
                                run[n].folder, run[n].index)
                      /\ run[m].returned
        /\ \A n \in 1..Len(run) :
             /\ <<run[n].folder, run[n].index>> \in SelectedFiles(data[c])
             /\ run[n].file = data[c].files[run[n].folder][run[n].index]
             /\ \A at \in SelectedFiles(data[c]) :
                  Before(at[1], at[2], run[n].folder, run[n].index)
                    => \E m \in 1..(n - 1) :
                         run[m].folder = at[1] /\ run[m].index = at[2]
        /\ pc[c] = "insert" =>
             /\ \A n \in 1..Len(run) : run[n].returned
             /\ Len(run) = Cardinality(SelectedFiles(data[c]))

\* insert() is under way after a call for the first category and then a call
\* for the last one.
C26_Witness ==
  \E c \in Users :
    /\ pc[c] = "insert"
    /\ Len(calls[c]) = 2
    /\ calls[c][1].folder = "companyRegistration"
    /\ calls[c][2].folder = "packingList"

(* -------------------------------- form reset --------------------------- *)

\* C27: when a run is over the form holds its default values if insert()
\* succeeded, and the values that were submitted in every other case: no
\* successful upload, a database error, an exception.
C27_ResetIffInserted ==
  \A c \in Users :
    RunEnded(c) /\ ~validationError[c] =>
      /\ insertResult[c] = "ok" => form[c] = DefaultValues
      /\ insertResult[c] # "ok" => form[c] = data[c]
      /\ form[c] = DefaultValues <=> written[c] > 0

\* After a database error the form still holds the company name and the
\* selected files.
C27_Witness ==
  \E c \in Users :
    /\ RunEnded(c)
    /\ toasts[c] = <<"Database Error">>
    /\ form[c] = data[c]
    /\ SelectedFiles(form[c]) # {}

(* ------------------------------ company name --------------------------- *)

\* The request of form c's current upload call, had the run been started
\* with an empty company name.
NamelessRequest(c) == FormData(Current(c), <<>>)

\* C28: every record has a non-empty company name: no run is started with an
\* empty company name, and the endpoint would answer each of a run's requests
\* with 400, storing nothing, if it came with an empty company name.
C28_CompanyNameNonEmpty ==
  /\ \A n \in 1..Len(db) : db[n].company_name # <<>>
  /\ \A c \in Users :
       /\ pc[c] # "idle" => data[c].companyName # <<>>
       /\ pc[c] = "fetch" =>
            \A backend \in BackendOutcomes :
              LET r == POST(NamelessRequest(c), storage,
                            Timestamp(epoch, now), backend)
              IN  r.resp.status = 400 /\ r.store = storage

\* A record was written; then the form was submitted with an empty company
\* name, which the validation rejected, and the table holds that record alone.
C28_Witness ==
  \E c \in Users :
    /\ Len(db) = 1
    /\ pc[c] = "idle"
    /\ validationError[c]
    /\ form[c].companyName = <<>>

(* --------------------------- what a record lists ----------------------- *)

\* C29: every record the form wrote lists at least one path: no record with
\* twelve empty lists is created.
C29_SomePathListed ==
  \A n \in 1..Len(db) :
    /\ DOMAIN db[n].document_paths = DocKeys
    /\ \E key \in DocKeys : db[n].document_paths[key] # <<>>

\* A record was written by a run in which one of two files failed: it lists
\* one path, in one category.
C29_Witness ==
  \E c \in Users :
    /\ written[c] > 0
    /\ Failed(c) # {}
    /\ Cardinality(NonEmptyCategories(db[written[c]])) = 1

\* C30: every path a record lists under a category is the path of an object
\* in the bucket, under that category's folder, and the record of the last
\* run lists it because an upload call of that run with that folder returned
\* it.
C30_ListedIsStored ==
  /\ \A n \in 1..Len(db) :
       \A key \in DOMAIN db[n].document_paths :
         \A path \in Range(db[n].document_paths[key]) :
           path \in storage /\ FolderOf(path) = Chars(key)
  /\ \A c \in Users :
       written[c] > 0 =>
         \A key \in DOMAIN db[written[c]].document_paths :
           \A path \in Range(db[written[c]].document_paths[key]) :
             \E n \in Succeeded(c) :
               calls[c][n].folder = key /\ calls[c][n].path = path

\* A record lists one stored object under the first category and one under
\* the last.
C30_Witness ==
  \E n \in 1..Len(db) :
    /\ NonEmptyCategories(db[n]) = {"companyRegistration", "packingList"}
    /\ RowPaths(db[n]) \subseteq storage
    /\ Cardinality(RowPaths(db[n])) = 2

====
